---- MODULE Spec2Model ----
(***************************************************************************)
(* A model of the useCache hook of react-native-media-cache                *)
(* (src/useCache.tsx): cacheItem, getCache, clearCache and the mount-time  *)
(* initialisation, running as interleaved asynchronous tasks over one      *)
(* cache directory of the file system and one process-wide AsyncLock.      *)
(*                                                                         *)
(* Every await of the source that talks to the file system, the network or *)
(* the lock is one atomic step; the JavaScript between two such steps runs *)
(* with the step that precedes it.  The collaborators are modelled by what *)
(* the source relies on:                                                   *)
(*   - FileSystem.getInfoAsync reads the directory, or rejects;            *)
(*   - FileSystem.makeDirectoryAsync (no `intermediates`) rejects when the *)
(*     directory is already there;                                         *)
(*   - FileSystem.deleteAsync (no `idempotent`) rejects when the directory *)
(*     is not there, and removes the directory with all its files;         *)
(*   - downloadAsync / copyAsync create the destination file only when the *)
(*     directory exists; a failed download or copy leaves no file;         *)
(*   - AsyncLock.acquire(key, fn) runs fn at once when the key is free,    *)
(*     queues it in arrival order otherwise, and hands the key to the next *)
(*     queued fn when fn's promise settles, fulfilled or rejected;         *)
(*   - Crypto.digestStringAsync is an injective function of its input.     *)
(* options.authToken only sets a request header and is left out; the       *)
(* pending-task limit of AsyncLock is never reached by the callers here.   *)
(***************************************************************************)
EXTENDS Naturals, Sequences, FiniteSets, TLC

(***************************************************************************)
(* Bounds of the model.                                                    *)
(***************************************************************************)
NumCallers == 2   \* concurrent callers of cacheItem
NumEngines == 1   \* mounted useCache() instances running init
MaxCalls   == 2   \* cacheItem and getCache calls in one behaviour
MaxClears  == 1   \* clearCache calls in one behaviour
NumMounts  == 4   \* useCache() instances mounted together in MountSpec

Callers == 1..NumCallers
Engines == 1..NumEngines
Mounts  == 1..NumMounts

(***************************************************************************)
(* Inputs.  `undefined` is an omitted option or an absent result.          *)
(***************************************************************************)
Undefined == "undefined"

RemoteA == "https://a"
RemoteB == "http://b"
LocalC  == "/local/c"
Urls == {RemoteA, RemoteB, LocalC}

CustomNames == {Undefined, "n"}
FileTypes   == {Undefined, "image", "video"}
Options ==
    { [customName |-> Undefined, fileType |-> Undefined],
      [customName |-> Undefined, fileType |-> "image"],
      [customName |-> "n", fileType |-> "video"] }

\* Linking.parse(url).scheme for the identifiers above.
Scheme(url) ==
    CASE url = RemoteA -> "https"
      [] url = RemoteB -> "http"
      [] OTHER         -> Undefined

(***************************************************************************)
(* Pure helpers of the hook.                                               *)
(***************************************************************************)
cacheDirName == "cache"
cacheDirectory == "file:///cacheDirectory/"

\* Crypto.digestStringAsync(SHA256, s): distinct inputs, distinct digests.
Digest(s) == "sha256(" \o s \o ")"

_getFilename(url, fileType) ==
    IF fileType # Undefined
    THEN Digest(url) \o "." \o (IF fileType = "image" THEN "jpg" ELSE "mp4")
    ELSE Digest(url)

_isRemoteUrl(url) == Scheme(url) = "http" \/ Scheme(url) = "https"

\* FileSystem.cacheDirectory + `${cacheDirName}/` + filename
Path(filename) == cacheDirectory \o cacheDirName \o "/" \o filename

\* A plausible slip: the url is hashed even when a customName is given.
Coalesce_PrefersUrl(customName, url) == url

\* customName ?? url
Coalesce(customName, url) == IF customName # Undefined THEN customName ELSE url

\* The destination of a download or a copy.
Destination(url, options) ==
    Path(_getFilename(Coalesce(options.customName, url), options.fileType))

VARIABLES
    dirExists,  \* the cache directory exists in the file system
    files,      \* path of each file of the cache directory |-> the identifier its bytes came from
    ipc,        \* each engine's position in init
    pc,         \* each caller's position in cacheItem
    args,       \* each caller's current (or last) cacheItem arguments
    ret,        \* the outcome of each caller's last completed cacheItem
    lockq,      \* AsyncLock: per key, the holder followed by the queued tasks
    getRet,     \* the last getCache call: its arguments and its outcome
    clearRet,   \* the outcome of the last clearCache call
    calls,      \* cacheItem and getCache calls so far
    clears,     \* clearCache calls so far
    conc,       \* pairs of callers whose current or last calls overlapped in time
    fresh       \* clearCache has completed and no file was written since

vars == <<dirExists, files, ipc, pc, args, ret, lockq, getRet, clearRet, calls, clears, conc, fresh>>

(***************************************************************************)
(* The file system.                                                        *)
(***************************************************************************)
\* FileSystem.getInfoAsync(path).exists
Exists(path) == dirExists /\ path \in DOMAIN files

\* A plausible slip: the lookup forgets the extension of the file type.
getCache_NoExtension(name, fileType) ==
    LET filename == Digest(name)
    IN  IF Exists(Path(filename))
        THEN [present |-> TRUE, uri |-> Path(filename)]
        ELSE [present |-> FALSE, uri |-> Undefined]

\* getCache(name, fileType) when getInfoAsync fulfils: the entry or undefined.
\* uri stands for the entry {uri, modificationTime, size}.
getCache(name, fileType) ==
    LET filename == _getFilename(name, fileType)
    IN  IF Exists(Path(filename))
        THEN [present |-> TRUE, uri |-> Path(filename)]
        ELSE [present |-> FALSE, uri |-> Undefined]

\* A plausible slip: the write is reported and the file is not stored.
WriteFile_Lost(path, url) == files

\* downloadAsync or copyAsync stores the bytes of url at path.
WriteFile(path, url) == (path :> url) @@ files

NoFiles == [x \in {} |-> Undefined]

(***************************************************************************)
(* AsyncLock.                                                              *)
(***************************************************************************)
Holder(key) == IF lockq[key] = <<>> THEN 0 ELSE Head(lockq[key])

\* fn's promise settled: the key passes to the next queued task, which starts
\* its critical section.
Release(key) == Tail(lockq[key])

\* A plausible slip: the next queued task is never started.
NextHolder_None(key) == 0

\* The task that the key passes to when its holder leaves, 0 when none waits.
NextHolder(key) == IF Len(lockq[key]) > 1 THEN lockq[key][2] ELSE 0

(***************************************************************************)
(* Outcomes of a cacheItem call.  `via` names the path the call took,       *)
(* `cleared` tells that clearCache emptied the store after the return,     *)
(* `waited` that the call queued for its lock, and `raced` that clearCache *)
(* removed the directory while the call was in its critical section.       *)
(***************************************************************************)
NoReturn ==
    [status |-> "none", val |-> Undefined, via |-> "none",
     cleared |-> FALSE, waited |-> FALSE, raced |-> FALSE]
Waited ==
    [status |-> "none", val |-> Undefined, via |-> "waited",
     cleared |-> FALSE, waited |-> TRUE, raced |-> FALSE]
Returned(val, via) ==
    [status |-> "returned", val |-> val, via |-> via,
     cleared |-> FALSE, waited |-> FALSE, raced |-> FALSE]
Raised(via) ==
    [status |-> "raised", val |-> Undefined, via |-> via,
     cleared |-> FALSE, waited |-> FALSE, raced |-> FALSE]

\* The outcome r of the call of p, with what is recorded of the call so far.
Outcome(p, r) == [r EXCEPT !.waited = ret[p].waited, !.raced = ret[p].raced]

NoGet == [name |-> Undefined, fileType |-> Undefined, status |-> "none", uri |-> Undefined]

Init ==
    /\ dirExists \in BOOLEAN
    /\ files = NoFiles
    /\ ipc = [e \in Engines |-> "check"]
    /\ pc = [p \in Callers |-> "idle"]
    /\ args = [p \in Callers |-> [url |-> RemoteA, options |-> [customName |-> Undefined, fileType |-> Undefined]]]
    /\ ret = [p \in Callers |-> NoReturn]
    /\ lockq = [u \in Urls |-> <<>>]
    /\ getRet = NoGet
    /\ clearRet = "none"
    /\ calls = 0
    /\ clears = 0
    /\ conc = {}
    /\ fresh = FALSE

(***************************************************************************)
(* init (the mount effect): check, then create, with no lock.              *)
(***************************************************************************)
\* A plausible slip: the test of the existence check is inverted.
InitCheck_Inverted(e) ==
    /\ ipc[e] = "check"
    /\ \E outcome \in {"ok", "throw"} :
          ipc' = [ipc EXCEPT ![e] =
                    IF outcome = "throw" THEN "failed"
                    ELSE IF dirExists THEN "create" ELSE "finished"]
    /\ UNCHANGED <<dirExists, files, pc, args, ret, lockq, getRet, clearRet, calls, clears, conc, fresh>>

\* _isCacheDirectoryExists; a rejection is caught and logged by init.  init
\* ends "finished" with the directory found or created, "lost" when its
\* creation found the directory there by then, "failed" when the file system
\* failed; the errors of "lost" and "failed" are caught and logged.
InitCheck(e) ==
    /\ ipc[e] = "check"
    /\ \E outcome \in {"ok", "throw"} :
          ipc' = [ipc EXCEPT ![e] =
                    IF outcome = "throw" THEN "failed"
                    ELSE IF dirExists THEN "finished" ELSE "create"]
    /\ UNCHANGED <<dirExists, files, pc, args, ret, lockq, getRet, clearRet, calls, clears, conc, fresh>>

\* _createCacheDirectory; it rejects when the directory is there by now or
\* cannot be created, and init catches and logs the rejection.
InitCreate(e) ==
    /\ ipc[e] = "create"
    /\ IF dirExists
       THEN /\ ipc' = [ipc EXCEPT ![e] = "lost"]
            /\ dirExists' = dirExists
       ELSE \E outcome \in {"ok", "throw"} :
               /\ ipc' = [ipc EXCEPT ![e] = IF outcome = "ok" THEN "finished" ELSE "failed"]
               /\ dirExists' = (outcome = "ok")
    /\ UNCHANGED <<files, pc, args, ret, lockq, getRet, clearRet, calls, clears, conc, fresh>>

(***************************************************************************)
(* cacheItem.                                                              *)
(***************************************************************************)
\* The call: cacheItem(url, options) starts and awaits getCache(url, fileType).
CacheItem(p, url, options) ==
    /\ pc[p] = "idle"
    /\ calls < MaxCalls
    /\ calls' = calls + 1
    /\ args' = [args EXCEPT ![p] = [url |-> url, options |-> options]]
    /\ pc' = [pc EXCEPT ![p] = "check"]
    /\ ret' = [ret EXCEPT ![p] = NoReturn]
    /\ conc' = {s \in conc : p \notin s}
                \cup {{p, q} : q \in {r \in Callers : r # p /\ pc[r] # "idle"}}
    /\ UNCHANGED <<dirExists, files, ipc, lockq, getRet, clearRet, clears, fresh>>

\* A plausible slip: the hit is not returned and the call goes on to fetch.
FirstCheck_NoShortCircuit(p) ==
    /\ pc[p] = "check"
    /\ pc' = [pc EXCEPT ![p] = IF _isRemoteUrl(args[p].url) THEN "acquire" ELSE "copy"]
    /\ UNCHANGED <<dirExists, files, ipc, args, ret, lockq, getRet, clearRet, calls, clears, conc, fresh>>

\* The first existence check and the branch on it: a hit returns the entry's
\* uri, a miss goes to _cacheRemoteItem or _cacheLocalItem, a rejection of the
\* query is caught and the call returns undefined.
FirstCheck(p) ==
    LET url == args[p].url
        existingCache == getCache(url, args[p].options.fileType)
    IN  /\ pc[p] = "check"
        /\ \E outcome \in {"ok", "throw"} :
              IF outcome = "throw"
              THEN /\ pc' = [pc EXCEPT ![p] = "idle"]
                   /\ ret' = [ret EXCEPT ![p] = Returned(Undefined, "caught")]
              ELSE IF existingCache.present
              THEN /\ pc' = [pc EXCEPT ![p] = "idle"]
                   /\ ret' = [ret EXCEPT ![p] = Returned(existingCache.uri, "hit")]
              ELSE /\ pc' = [pc EXCEPT ![p] = IF _isRemoteUrl(url) THEN "acquire" ELSE "copy"]
                   /\ ret' = ret
        /\ UNCHANGED <<dirExists, files, ipc, args, lockq, getRet, clearRet, calls, clears, conc, fresh>>

\* A plausible slip: one lock for all keys, so a task queues behind any holder.
Acquire_GlobalLock(p) ==
    LET url  == args[p].url
        free == \A u \in Urls : lockq[u] = <<>>
    IN  /\ pc[p] = "acquire"
        /\ lockq' = [lockq EXCEPT ![url] = Append(@, p)]
        /\ pc' = [pc EXCEPT ![p] = IF free THEN "recheck" ELSE "waiting"]
        /\ ret' = [ret EXCEPT ![p] = IF free THEN @ ELSE Waited]
        /\ UNCHANGED <<dirExists, files, ipc, args, getRet, clearRet, calls, clears, conc, fresh>>

\* A plausible variant: the key of the lock is the destination file, so a task
\* queues behind any holder that writes the same file.
Acquire_KeyedOnFilename(p) ==
    LET url  == args[p].url
        free == \A h \in Callers :
                    pc[h] \in {"recheck", "downloading"}
                    => Destination(args[h].url, args[h].options)
                           # Destination(url, args[p].options)
    IN  /\ pc[p] = "acquire"
        /\ lockq' = [lockq EXCEPT ![url] = Append(@, p)]
        /\ pc' = [pc EXCEPT ![p] = IF free THEN "recheck" ELSE "waiting"]
        /\ ret' = [ret EXCEPT ![p] = IF free THEN @ ELSE Waited]
        /\ UNCHANGED <<dirExists, files, ipc, args, getRet, clearRet, calls, clears, conc, fresh>>

\* A plausible slip: fn is started at once even when the key is held.
Acquire_NeverWaits(p) ==
    LET url == args[p].url
    IN  /\ pc[p] = "acquire"
        /\ lockq' = [lockq EXCEPT ![url] = Append(@, p)]
        /\ pc' = [pc EXCEPT ![p] = "recheck"]
        /\ UNCHANGED <<dirExists, files, ipc, args, ret, getRet, clearRet, calls, clears, conc, fresh>>

\* _cacheRemoteItem up to lock.acquire(url, ...): the task enters its critical
\* section at once when the key is free and queues otherwise.
Acquire(p) ==
    LET url  == args[p].url
        free == lockq[url] = <<>>
    IN  /\ pc[p] = "acquire"
        /\ lockq' = [lockq EXCEPT ![url] = Append(@, p)]
        /\ pc' = [pc EXCEPT ![p] = IF free THEN "recheck" ELSE "waiting"]
        /\ ret' = [ret EXCEPT ![p] = IF free THEN @ ELSE Waited]
        /\ UNCHANGED <<dirExists, files, ipc, args, getRet, clearRet, calls, clears, conc, fresh>>

\* A plausible slip: the lock is released only when fn returns a uri.
Leave_KeepsLockOnFailure(p, r) ==
    LET url == args[p].url
        q   == NextHolder(url)
    IN  IF r.val = Undefined
        THEN /\ lockq' = lockq
             /\ pc' = [pc EXCEPT ![p] = "idle"]
             /\ ret' = [ret EXCEPT ![p] = Outcome(p, r)]
        ELSE /\ lockq' = [lockq EXCEPT ![url] = Release(url)]
             /\ pc' = [c \in Callers |-> IF c = p THEN "idle"
                                          ELSE IF c = q THEN "recheck" ELSE pc[c]]
             /\ ret' = [ret EXCEPT ![p] = Outcome(p, r)]

\* fn settles with outcome r, the promise of lock.acquire settles with it (a
\* rejection becomes undefined in .catch), and the lock passes on.
Leave(p, r) ==
    LET url == args[p].url
        q   == NextHolder(url)
    IN  /\ lockq' = [lockq EXCEPT ![url] = Release(url)]
        /\ pc' = [c \in Callers |-> IF c = p THEN "idle"
                                     ELSE IF c = q THEN "recheck" ELSE pc[c]]
        /\ ret' = [ret EXCEPT ![p] = Outcome(p, r)]

\* A plausible slip: the entry found inside the lock is returned as a hit.
Recheck_ReturnsEntry(p) ==
    LET url == args[p].url
        existingCache == getCache(url, args[p].options.fileType)
    IN  /\ pc[p] = "recheck"
        /\ Holder(url) = p
        /\ \E outcome \in {"ok", "throw"} :
              IF outcome = "throw"
              THEN Leave(p, Returned(Undefined, "lockerr"))
              ELSE IF existingCache.present
              THEN Leave(p, Returned(existingCache.uri, "dup"))
              ELSE /\ pc' = [pc EXCEPT ![p] = "downloading"]
                   /\ UNCHANGED <<lockq, ret>>
        /\ UNCHANGED <<dirExists, files, ipc, args, getRet, clearRet, calls, clears, conc, fresh>>

\* Inside the lock: getCache(url, fileType), then createDownloadResumable and
\* the start of downloadAsync on a miss.
Recheck(p) ==
    LET url == args[p].url
        existingCache == getCache(url, args[p].options.fileType)
    IN  /\ pc[p] = "recheck"
        /\ Holder(url) = p
        /\ \E outcome \in {"ok", "throw"} :
              IF outcome = "throw"
              THEN Leave(p, Returned(Undefined, "lockerr"))
              ELSE IF existingCache.present
              THEN Leave(p, Returned(Undefined, "dup"))
              ELSE /\ pc' = [pc EXCEPT ![p] = "downloading"]
                   /\ UNCHANGED <<lockq, ret>>
        /\ UNCHANGED <<dirExists, files, ipc, args, getRet, clearRet, calls, clears, conc, fresh>>

\* downloadAsync settles: with a result (the file is written), with no result,
\* or rejected (caught by .catch of the lock's promise).
Download(p) ==
    LET url  == args[p].url
        dest == Destination(url, args[p].options)
    IN  /\ pc[p] = "downloading"
        /\ \E outcome \in {"ok", "none", "throw"} :
              /\ outcome = "ok" => dirExists
              /\ files' = IF outcome = "ok" THEN WriteFile(dest, url) ELSE files
              /\ fresh' = (fresh /\ outcome # "ok")
              /\ Leave(p, CASE outcome = "ok"   -> Returned(dest, "downloaded")
                             [] outcome = "none" -> Returned(Undefined, "noresult")
                             [] OTHER            -> Returned(Undefined, "dlerr"))
        /\ UNCHANGED <<dirExists, ipc, args, getRet, clearRet, calls, clears, conc>>

\* _cacheLocalItem: copyAsync.  Its rejection is not caught: cacheItem returns
\* the promise of _cacheLocalItem without awaiting it inside its try block.
Copy(p) ==
    LET url  == args[p].url
        dest == Destination(url, args[p].options)
    IN  /\ pc[p] = "copy"
        /\ \E outcome \in {"ok", "throw"} :
              /\ outcome = "ok" => dirExists
              /\ files' = IF outcome = "ok" THEN WriteFile(dest, url) ELSE files
              /\ fresh' = (fresh /\ outcome # "ok")
              /\ pc' = [pc EXCEPT ![p] = IF outcome = "ok" THEN "localcheck" ELSE "idle"]
              /\ ret' = [ret EXCEPT ![p] = IF outcome = "ok" THEN @ ELSE Raised("copyerr")]
        /\ UNCHANGED <<dirExists, ipc, args, lockq, getRet, clearRet, calls, clears, conc>>

\* _cacheLocalItem: getCache(<destination path>, fileType) and the return.  The
\* destination path is passed as the name, so it is hashed once more.
LocalCheck(p) ==
    LET dest   == Destination(args[p].url, args[p].options)
        result == getCache(dest, args[p].options.fileType)
    IN  /\ pc[p] = "localcheck"
        /\ pc' = [pc EXCEPT ![p] = "idle"]
        /\ \E outcome \in {"ok", "throw"} :
              ret' = [ret EXCEPT ![p] =
                        IF outcome = "throw" THEN Raised("infoerr")
                        ELSE IF result.present THEN Returned(result.uri, "copied")
                        ELSE Returned(Undefined, "copymiss")]
        /\ UNCHANGED <<dirExists, files, ipc, args, lockq, getRet, clearRet, calls, clears, conc, fresh>>

(***************************************************************************)
(* getCache, called by the application.                                    *)
(***************************************************************************)
\* The names getCache can be asked for: a url or a customName.
Names == Urls \cup (CustomNames \ {Undefined})

\* A plausible slip: fileInfo.uri is returned without looking at fileInfo.exists.
GetCache_IgnoresExists(name, fileType) ==
    /\ calls < MaxCalls
    /\ calls' = calls + 1
    /\ \E outcome \in {"ok", "throw"} :
          getRet' = IF outcome = "throw"
                    THEN [name |-> name, fileType |-> fileType,
                          status |-> "raised", uri |-> Undefined]
                    ELSE [name |-> name, fileType |-> fileType,
                          status |-> "returned", uri |-> Path(_getFilename(name, fileType))]
    /\ UNCHANGED <<dirExists, files, ipc, pc, args, ret, lockq, clearRet, clears, conc, fresh>>

\* getCache(name, fileType) called by the application: the digest, then the
\* existence query, which answers or rejects.
GetCache(name, fileType) ==
    /\ calls < MaxCalls
    /\ calls' = calls + 1
    /\ \E outcome \in {"ok", "throw"} :
          getRet' = IF outcome = "throw"
                    THEN [name |-> name, fileType |-> fileType,
                          status |-> "raised", uri |-> Undefined]
                    ELSE [name |-> name, fileType |-> fileType,
                          status |-> "returned", uri |-> getCache(name, fileType).uri]
    /\ UNCHANGED <<dirExists, files, ipc, pc, args, ret, lockq, clearRet, clears, conc, fresh>>

(***************************************************************************)
(* clearCache.                                                             *)
(***************************************************************************)
\* A plausible slip: the files of the directory survive the call.
ClearCache_KeepsFiles ==
    /\ clears < MaxClears
    /\ clears' = clears + 1
    /\ fresh' = TRUE
    /\ clearRet' = "ok"
    /\ UNCHANGED <<dirExists, files, ret, ipc, pc, args, lockq, getRet, calls, conc>>

\* deleteAsync(cacheDirectory + cacheDirName): the directory and every file in
\* it are removed; it rejects, and so does clearCache, when there is none.
ClearCache ==
    /\ clears < MaxClears
    /\ clears' = clears + 1
    /\ fresh' = TRUE
    /\ IF dirExists
       THEN /\ dirExists' = FALSE
            /\ files' = NoFiles
            /\ clearRet' = "ok"
            /\ ret' = [p \in Callers |->
                         IF ret[p].status = "returned" /\ ret[p].val # Undefined
                         THEN [ret[p] EXCEPT !.cleared = TRUE]
                         ELSE IF pc[p] \in {"recheck", "downloading"}
                         THEN [ret[p] EXCEPT !.raced = TRUE]
                         ELSE ret[p]]
       ELSE /\ clearRet' = "raised"
            /\ UNCHANGED <<dirExists, files, ret>>
    /\ UNCHANGED <<ipc, pc, args, lockq, getRet, calls, conc>>

Next ==
    \/ \E e \in Engines : InitCheck(e)
    \/ \E e \in Engines : InitCreate(e)
    \/ \E p \in Callers, url \in Urls, options \in Options : CacheItem(p, url, options)
    \/ \E p \in Callers : FirstCheck(p)
    \/ \E p \in Callers : Acquire(p)
    \/ \E p \in Callers : Recheck(p)
    \/ \E p \in Callers : Download(p)
    \/ \E p \in Callers : Copy(p)
    \/ \E p \in Callers : LocalCheck(p)
    \/ \E name \in Names, fileType \in FileTypes : GetCache(name, fileType)
    \/ ClearCache

Spec == Init /\ [][Next]_vars

\* Every step of a started call is taken in the end: the event loop runs each
\* continuation that is ready, and every download and copy settles.
Step(p) ==
    \/ FirstCheck(p)
    \/ Acquire(p)
    \/ Recheck(p)
    \/ Download(p)
    \/ Copy(p)
    \/ LocalCheck(p)

FairSpec == Spec /\ \A p \in Callers : WF_vars(Step(p))

(***************************************************************************)
(* Several components that use the hook mount together: their inits run    *)
(* interleaved, before any call of the API.                                *)
(***************************************************************************)
MountInit ==
    /\ dirExists \in BOOLEAN
    /\ files = NoFiles
    /\ ipc = [e \in Mounts |-> "check"]
    /\ pc = [p \in Callers |-> "idle"]
    /\ args = [p \in Callers |-> [url |-> RemoteA, options |-> [customName |-> Undefined, fileType |-> Undefined]]]
    /\ ret = [p \in Callers |-> NoReturn]
    /\ lockq = [u \in Urls |-> <<>>]
    /\ getRet = NoGet
    /\ clearRet = "none"
    /\ calls = 0
    /\ clears = 0
    /\ conc = {}
    /\ fresh = FALSE

MountNext ==
    \/ \E e \in Mounts : InitCheck(e)
    \/ \E e \in Mounts : InitCreate(e)

MountSpec == MountInit /\ [][MountNext]_vars

(***************************************************************************)
(* Vocabulary of the properties.                                           *)
(***************************************************************************)
FileTypeOf(p) == args[p].options.fileType
CustomNameOf(p) == args[p].options.customName

\* The caller's current or last call found no entry at its first check.
Missed(p) ==
    \/ pc[p] \notin {"idle", "check"}
    \/ pc[p] = "idle" /\ ret[p].via \notin {"none", "hit", "caught"}

\* Successful fetches or copies, each a write of the destination entry, by the
\* caller's current or last call.
Writes(p) ==
    IF \/ pc[p] = "localcheck"
       \/ pc[p] = "idle" /\ ret[p].via \in {"downloaded", "copied", "copymiss", "infoerr"}
    THEN 1 ELSE 0

InCriticalSection(p) == pc[p] \in {"recheck", "downloading"}

\* C1: two cacheItem calls that overlap in time, have the same identifier and
\* options and both missed at their first check cause one fetch or copy
\* between them, so that (with no clearCache in the run) the destination entry
\* is written at most once.
C1_Deduplication ==
    \A p, q \in Callers :
        (/\ p # q
         /\ {p, q} \in conc
         /\ args[p] = args[q]
         /\ Missed(p)
         /\ Missed(q)
         /\ clears = 0)
        => Writes(p) + Writes(q) <= 1

\* C2: a first existence check that finds an entry at the key of
\* (url, fileType) ends the call at once with that entry's uri: the call takes
\* no lock and starts no download and no copy.
C2_CacheHitShortCircuit ==
    [][\A p \in Callers :
          (/\ pc[p] = "check"
           /\ pc'[p] # "check"
           /\ getCache(args[p].url, FileTypeOf(p)).present
           /\ ret'[p].via # "caught")
          => /\ pc'[p] = "idle"
             /\ ret'[p].status = "returned"
             /\ ret'[p].val = getCache(args[p].url, FileTypeOf(p)).uri
             /\ ret'[p].val = Path(_getFilename(args[p].url, FileTypeOf(p)))
             /\ lockq' = lockq
             /\ files' = files]_vars

C2_Witness ==
    \E p \in Callers :
        /\ pc[p] = "idle"
        /\ ret[p].via = "hit"
        /\ ret[p].val = Path(_getFilename(args[p].url, FileTypeOf(p)))
        /\ Exists(ret[p].val)

\* A returned uri that no clearCache has emptied since.
HoldsUri(p) ==
    /\ pc[p] = "idle"
    /\ ret[p].status = "returned"
    /\ ret[p].val # Undefined
    /\ ~ret[p].cleared

\* C3 as stated: after cacheItem(url, options) returned a uri and no clearCache
\* ran since, getCache(url, fileType) returns a present entry with that uri.
C3_RoundTripByIdentifier ==
    \A p \in Callers :
        HoldsUri(p)
        => LET entry == getCache(args[p].url, FileTypeOf(p))
           IN  entry.present /\ entry.uri = ret[p].val

\* C3 amended: after cacheItem(url, options) returned a uri and no clearCache
\* ran since, getCache(url, fileType) returns a present entry with that uri
\* when the call hit the cache, and getCache(customName ?? url, fileType) does
\* when the call downloaded.
C3_RoundTrip ==
    \A p \in Callers :
        (HoldsUri(p) /\ ret[p].via \in {"hit", "downloaded"})
        => LET name  == IF ret[p].via = "hit" THEN args[p].url
                        ELSE Coalesce(CustomNameOf(p), args[p].url)
               entry == getCache(name, FileTypeOf(p))
           IN  entry.present /\ entry.uri = ret[p].val

C3_Witness ==
    \E p \in Callers :
        /\ HoldsUri(p)
        /\ ret[p].via = "downloaded"
        /\ CustomNameOf(p) # Undefined
        /\ ~getCache(args[p].url, FileTypeOf(p)).present
        /\ getCache(CustomNameOf(p), FileTypeOf(p)).uri = ret[p].val

\* C4: when the copy has succeeded, the local path returns the uri of the
\* entry at the destination whenever that entry is present, and undefined
\* only when it is not.
C4_LocalCopyResult ==
    [][\A p \in Callers :
          (pc[p] = "localcheck" /\ pc'[p] = "idle" /\ ret'[p].status = "returned")
          => LET dest == Destination(args[p].url, args[p].options)
             IN  ret'[p].val = IF Exists(dest) THEN dest ELSE Undefined]_vars

\* C5: no cacheItem call ends with an error.
C5_NeverRaises ==
    \A p \in Callers : ret[p].status # "raised"

\* C6: once clearCache has completed, and until a file is written again,
\* getCache returns undefined for every name and file type, and a cacheItem
\* call whose first check comes then does not take the cache-hit path: it goes
\* on to the remote-fetch or local-copy procedure, and inside the lock it
\* starts the download.
C6_ClearCacheClears ==
    [][/\ fresh' => \A name \in Names, t \in FileTypes : ~getCache(name, t).present'
       /\ \A p \in Callers :
             (fresh /\ pc[p] = "check" /\ pc'[p] # "check" /\ ret'[p].via # "caught")
             => pc'[p] = (IF _isRemoteUrl(args[p].url) THEN "acquire" ELSE "copy")
       /\ \A p \in Callers :
             (fresh /\ pc[p] = "recheck" /\ pc'[p] # "recheck" /\ ret'[p].via # "lockerr")
             => pc'[p] = "downloading"]_vars

\* An identifier cached before clearCache is being fetched afresh after it.
C6_Witness ==
    \E p, q \in Callers :
        /\ fresh
        /\ clearRet = "ok"
        /\ ret[q].via = "downloaded" /\ ret[q].cleared
        /\ CustomNameOf(q) = Undefined
        /\ args[p].url = args[q].url /\ FileTypeOf(p) = FileTypeOf(q)
        /\ pc[p] = "downloading"
        /\ ~getCache(args[q].url, FileTypeOf(q)).present

\* The step is a successful download or copy by p.
Wrote(p) ==
    \/ pc[p] = "downloading" /\ pc'[p] = "idle" /\ ret'[p].via = "downloaded"
    \/ pc[p] = "copy" /\ pc'[p] = "localcheck"

\* C7: a successful fetch or copy of cacheItem(url, {customName: n, fileType: t})
\* puts the bytes of url at the key of (n, t), so that getCache(n, t) is present
\* right after it, and when n differs from url it creates or changes nothing at
\* the key of (url, t).
C7_CustomNameKeysEntry ==
    [][\A p \in Callers :
          (Wrote(p) /\ CustomNameOf(p) # Undefined)
          => LET n    == CustomNameOf(p)
                 t    == FileTypeOf(p)
                 own  == Path(_getFilename(n, t))
                 raw  == Path(_getFilename(args[p].url, t))
             IN  /\ own \in DOMAIN files'
                 /\ files'[own] = args[p].url
                 /\ getCache(n, t).present'
                 /\ getCache(n, t).uri' = own
                 /\ n # args[p].url =>
                       /\ (raw \in DOMAIN files') = (raw \in DOMAIN files)
                       /\ raw \in DOMAIN files => files'[raw] = files[raw]]_vars

C7_Witness ==
    \E p \in Callers :
        /\ pc[p] = "localcheck"
        /\ CustomNameOf(p) = "n"
        /\ getCache("n", FileTypeOf(p)).present
        /\ files[Path(_getFilename("n", FileTypeOf(p)))] = args[p].url
        /\ ~getCache(args[p].url, FileTypeOf(p)).present

\* The step ends p's critical section in failure.
FailedInLock(p) ==
    /\ InCriticalSection(p)
    /\ pc'[p] = "idle"
    /\ ret'[p].via \in {"lockerr", "noresult", "dlerr"}

\* C8: when a critical section ends in failure the lock is released: the task
\* is no longer in the key's queue, the next queued task, if any, holds the key
\* and is in its critical section, and in every state the holder of a key is a
\* task inside its critical section for that key.
C8_LockReleasedOnFailure ==
    [][/\ \A p \in Callers :
             FailedInLock(p)
             => LET url  == args[p].url
                    next == NextHolder(url)
                IN  /\ \A i \in 1..Len(lockq'[url]) : lockq'[url][i] # p
                    /\ next # 0 => /\ lockq'[url] # <<>>
                                   /\ Head(lockq'[url]) = next
                                   /\ pc'[next] = "recheck"
                    /\ next = 0 => lockq'[url] = <<>>
       /\ \A u \in Urls :
             lockq'[u] # <<>>
             => /\ pc'[Head(lockq'[u])] \in {"recheck", "downloading"}
                /\ args'[Head(lockq'[u])].url = u]_vars

\* A waiter is in its critical section after the holder before it failed.
C8_Witness ==
    \E p, q \in Callers :
        /\ p # q
        /\ {p, q} \in conc
        /\ args[p].url = args[q].url
        /\ pc[p] = "idle" /\ ret[p].via \in {"lockerr", "noresult", "dlerr"}
        /\ ret[q].via = "waited"
        /\ pc[q] = "downloading"
        /\ lockq[args[q].url] = <<q>>

\* C9: under fair scheduling, with every download settling, a call that waits
\* for the lock gets it and every call returns.
C9_EventualProgress ==
    \A p \in Callers :
        /\ (pc[p] = "waiting") ~> (ret[p].via = "waited" /\ InCriticalSection(p))
        /\ (pc[p] # "idle") ~> (pc[p] = "idle")

\* A call that waited for the lock has returned.
C9_Witness ==
    \E p, q \in Callers :
        /\ p # q
        /\ {p, q} \in conc
        /\ args[p].url = args[q].url
        /\ pc[p] = "idle" /\ pc[q] = "idle"
        /\ ret[p].via \in {"downloaded", "noresult", "dlerr", "lockerr"}
        /\ ret[q].via \in {"dup", "downloaded", "noresult", "dlerr", "lockerr"}
        /\ ret[q].status = "returned"
        /\ calls = MaxCalls

\* C10: a call waits only behind a call for the same identifier: whenever a
\* task is queued for a key, the key's holder is another task, in its critical
\* section, whose identifier is that key.
C10_Independence ==
    \A p \in Callers :
        pc[p] = "waiting"
        => LET h == Holder(args[p].url)
           IN  /\ h \in Callers \ {p}
               /\ args[h].url = args[p].url
               /\ InCriticalSection(h)

\* Downloads for two identifiers in progress at once.
C10_Witness ==
    \E p, q \in Callers :
        /\ pc[p] = "downloading" /\ args[p].url = RemoteA
        /\ pc[q] = "downloading" /\ args[q].url = RemoteB
        /\ Holder(RemoteA) = p
        /\ Holder(RemoteB) = q

\* C11: clearCache never ends with an error, also when the cache directory is
\* absent (a second clearCache in a row, or clearCache before init has created
\* the directory).
C11_ClearCacheNeverRaises ==
    clearRet # "raised"

\* The step is a getCache call of the application.
IsGetCache == calls' # calls /\ pc' = pc

\* C12: a getCache call creates, changes and deletes no file and no directory,
\* takes and releases no lock, and when it returns it returns the entry at the
\* key of (name, fileType) if one exists at the moment of the existence query
\* and undefined if none does.
C12_GetCachePureRead ==
    [][IsGetCache
       => /\ files' = files
          /\ dirExists' = dirExists
          /\ lockq' = lockq
          /\ getRet'.status = "returned"
             => LET path == Path(_getFilename(getRet'.name, getRet'.fileType))
                IN  getRet'.uri = IF Exists(path) THEN path ELSE Undefined]_vars

\* getCache has returned an entry that a download stored under a customName.
C12_Witness ==
    \E p \in Callers :
        /\ getRet.status = "returned"
        /\ getRet.uri # Undefined
        /\ Exists(getRet.uri)
        /\ ret[p].via = "downloaded"
        /\ getRet.uri = ret[p].val
        /\ getRet.name = CustomNameOf(p)

\* C13: for each remote identifier at most one cacheItem call is inside the
\* locked check-then-download section, and that call is the holder of the
\* identifier's lock.
C13_MutualExclusion ==
    \A p, q \in Callers :
        (InCriticalSection(p) /\ InCriticalSection(q) /\ args[p].url = args[q].url)
        => (p = q /\ Holder(args[p].url) = p)

\* One call downloads while another call for the same identifier waits.
C13_Witness ==
    \E p, q \in Callers :
        /\ pc[p] = "downloading"
        /\ pc[q] = "waiting"
        /\ args[p].url = args[q].url
        /\ lockq[args[p].url] = <<p, q>>

\* C14: a remote call that has the lock (after waiting for it or not) and
\* whose existence query inside the lock answers: when the entry at the key of
\* (url, fileType) is present it starts no download, writes nothing and
\* returns undefined, not the entry's uri; when the entry is absent it starts
\* the download itself.
C14_DoubleCheckInsideLock ==
    [][\A p \in Callers :
          (pc[p] = "recheck" /\ pc'[p] # "recheck" /\ ret'[p].via # "lockerr")
          => IF getCache(args[p].url, FileTypeOf(p)).present
             THEN /\ pc'[p] = "idle"
                  /\ ret'[p].status = "returned"
                  /\ ret'[p].val = Undefined
                  /\ files' = files
             ELSE /\ pc'[p] = "downloading"
                  /\ ret'[p].status = "none"]_vars

\* A call without customName that missed, waited for the lock and found the
\* entry that the holder before it had downloaded has returned undefined.
C14_Witness ==
    \E p, q \in Callers :
        /\ p # q
        /\ args[p] = args[q]
        /\ CustomNameOf(q) = Undefined
        /\ ret[p].via = "downloaded"
        /\ pc[q] = "idle"
        /\ ret[q].via = "dup"
        /\ ret[q].waited
        /\ ret[q].val = Undefined
        /\ getCache(args[q].url, FileTypeOf(q)).uri = ret[p].val

\* Two calls with distinct identifiers and the same customName and file type.
Collide(p, q) ==
    /\ p # q
    /\ args[p].url # args[q].url
    /\ CustomNameOf(p) # Undefined
    /\ CustomNameOf(p) = CustomNameOf(q)
    /\ FileTypeOf(p) = FileTypeOf(q)

\* C15: two remote calls with distinct identifiers and the same customName and
\* file type have the same destination file and different locks: the one does
\* not queue behind the other, each enters its critical section as soon as it
\* asks for its lock while the other is inside its own (no call for its own
\* identifier being inside), and a download that succeeds while the other
\* download is in progress writes that destination.
C15_CustomNameCollision ==
    [][\A p, q \in Callers :
          (Collide(p, q) /\ InCriticalSection(q))
          => /\ Destination(args[p].url, args[p].options)
                   = Destination(args[q].url, args[q].options)
             /\ (/\ pc[p] = "acquire"
                 /\ pc'[p] # "acquire"
                 /\ \A r \in Callers \ {p} :
                       InCriticalSection(r) => args[r].url # args[p].url)
                => pc'[p] = "recheck"
             /\ (pc[p] = "downloading" /\ ret'[p].via = "downloaded")
                => /\ pc[q] = "downloading"
                      => pc'[q] = "downloading"
                   /\ files'[Destination(args[q].url, args[q].options)] = args[p].url]_vars

\* Both downloads are in progress at once, each under its own lock, and both
\* write the same destination file.
C15_Witness ==
    \E p, q \in Callers :
        /\ Collide(p, q)
        /\ pc[p] = "downloading"
        /\ pc[q] = "downloading"
        /\ Holder(args[p].url) = p
        /\ Holder(args[q].url) = q
        /\ Destination(args[p].url, args[p].options)
              = Destination(args[q].url, args[q].options)

\* C16 as stated: a download that was in progress when clearCache completed
\* can complete with its result stored, so that the store holds an entry again.
C16_RacedDownloadRepopulates ==
    \A p \in Callers :
        (pc[p] = "downloading" /\ ret[p].raced)
        => ENABLED (Download(p) /\ ret'[p].via = "downloaded")

\* The init of every mounted instance has ended.
InitsEnded == \A e \in DOMAIN ipc : ipc[e] \in {"finished", "lost", "failed"}

\* C17: every init ends with its errors caught and logged: "finished" only
\* with the directory there, "lost" only because the directory was there by
\* the time of its creation attempt; and once all inits have ended, none of
\* them on a failure of the file system, the cache directory exists.
C17_BenignInitRace ==
    /\ \A e \in DOMAIN ipc :
          /\ ipc[e] \in {"check", "create", "finished", "lost", "failed"}
          /\ ipc[e] \in {"finished", "lost"} => dirExists
    /\ (InitsEnded /\ \A e \in DOMAIN ipc : ipc[e] # "failed") => dirExists

\* Two instances both found no directory; one created it, the creation of the
\* other was rejected and logged, and all inits have ended.
C17_Witness ==
    /\ InitsEnded
    /\ dirExists
    /\ \E e, f \in DOMAIN ipc : ipc[e] = "finished" /\ ipc[f] = "lost"
    /\ \A e \in DOMAIN ipc : ipc[e] # "failed"

\* C18: once every init has ended, none on a failure of the file system, the
\* cache directory exists at the moment a cacheItem call starts its download
\* or its copy, also after clearCache calls.
C18_DirectoryPresentAtWrite ==
    [][\A p \in Callers :
          (/\ InitsEnded
           /\ \A e \in DOMAIN ipc : ipc[e] # "failed"
           /\ \/ pc[p] = "recheck" /\ pc'[p] = "downloading"
              \/ pc[p] = "copy" /\ pc'[p] # "copy")
          => dirExists]_vars

\* C19: in a run without clearCache, a uri that a cacheItem call has returned
\* is the uri of a file of the cache directory, at the return and for as long
\* as the outcome of the call is held.
C19_ReturnedUrisBacked ==
    clears = 0
    => \A p \in Callers :
          (ret[p].status = "returned" /\ ret[p].val # Undefined)
          => /\ Exists(ret[p].val)
             /\ ret[p].via \in {"hit", "downloaded", "copied"}

\* One call has downloaded an entry and a later call has returned the same
\* uri from the cache-hit path; the entry is in the store.
C19_Witness ==
    \E p, q \in Callers :
        /\ clears = 0
        /\ ret[p].via = "downloaded"
        /\ ret[q].via = "hit"
        /\ ret[p].val = ret[q].val
        /\ Exists(ret[p].val)
        /\ files[ret[p].val] = args[p].url
====
